---- MODULE Spec2Model ----
(***************************************************************************)
(* apigrate/shield: the security module (login, generateResetPasswordToken,*)
(* resetPassword) of src/index.js over the t_user table, modelled as       *)
(* concurrent calls whose steps are the points where the promise chains    *)
(* touch the credential store or the password hasher.                      *)
(*                                                                         *)
(* Every store request is one atomic step.  The callback that consumes a   *)
(* store or hasher result runs in the same step as that result, because    *)
(* nothing else can observe the local work in between.                     *)
(***************************************************************************)
EXTENDS Integers, Sequences, FiniteSets, TLC

(* ------------------------------ bounds -------------------------------- *)
\* last instant of the clock, in ticks
MaxTime == 5
\* clock ticks per second (moment() has sub-second resolution)
TicksPerSec == 3
\* length of a day in seconds, scaled down
SecsPerDay == 1
\* number of uuid() values that may be drawn
MaxTokens == 2
\* login is not started once some login_count has reached this value
MaxLogins == 2
\* the value of opts.max_bad_logins when the option is given
ConfiguredMaxBadLogins == 2
\* number of calls made where the callers' calls are counted
MaxCalls == 4
\* number of times the database stops answering
MaxOutages == 2
\* number of session rows
MaxSessions == 2
\* latest expiry of a session row, in seconds
MaxExpirySecs == 1

(* -------------------------- program constants ------------------------- *)
\* opts.max_bad_logins || 10
DefaultMaxBadLogins == 10
\* moment().add(1, 'day')
TokenTTLDays == 1
\* DEFAULT NULL of a t_user column
Null == -1
\* salt_rounds of the options example; 0 stands for an option left out
SaltRounds == 15

Procs == {1, 2}
UserIds == {1, 2}
\* a JavaScript null / undefined argument
Nil == "<nil>"

VARIABLES
  users,      \* t_user: id -> row
  now,        \* the clock, in ticks
  nextToken,  \* the next value uuid() returns
  opts,       \* the options object given to the module
  calls,      \* per caller: the call in progress (closure variables, position, settlement)
  hist,       \* history: what the claims speak about and the code does not store
  storeUp,    \* whether the database answers requests
  sessions,   \* t_user_session: id -> expires, for the rows present
  reaper,     \* the interval timer of reapExpiredSessions and what it last logged
  req,        \* the request at the route guard: its session and path
  res         \* what the route guard did with the request

vars == <<users, now, nextToken, opts, calls, hist, storeUp, sessions, reaper, req, res>>

\* the credential side and the session side of the state
coreVars == <<users, nextToken, opts, calls, hist>>

webVars == <<sessions, reaper, req, res>>

(* ------------------------------ password hasher ----------------------- *)
\* bcrypt.hash(s, rounds): a one-way image of the plaintext
BcryptHash(s) == <<"bcrypt", s>>

\* bcrypt.compare(s, hash)
BcryptCompare(s, hash) == hash = BcryptHash(s)

\* what User.update makes of a property that is undefined: the column is
\* set to NULL, or it is left out of the statement
UndefinedColumns == {"null", "kept"}

(* ------------------------------ time ---------------------------------- *)
\* moment(...).utc().format('YYYY-MM-DDTHH:mm:ss'): the instant cut to whole seconds
Format(t) == t - (t % TicksPerSec)

\* moment().add(1, 'day')
AddDay(t) == t + TokenTTLDays * SecsPerDay * TicksPerSec

\* moment(a).isBefore(b)
IsBefore(a, b) == a < b

(* ------------------------------ errors -------------------------------- *)
ErrorObj(name, message) == [name |-> name, message |-> message]

InvalidLogin == ErrorObj("Error", "Invalid login.")

UserNotFoundError(m) == ErrorObj("UserNotFoundError", m)

UserSuspendedError ==
  ErrorObj("UserSuspendedError",
           "Your account has been suspended. Please contact your administrator.")

PasswordExpiredError ==
  ErrorObj("PasswordExpiredError", "Your password has expired and must be reset.")

InvalidPasswordError == ErrorObj("InvalidPasswordError", "Passwords do not match.")

InvalidResetTokenError == ErrorObj("InvalidResetTokenError", "")

ExpiredResetTokenError == ErrorObj("ExpiredResetTokenError", "")

\* the rejection of a store request the database did not answer
StoreError == ErrorObj("Error", "store")

\* what login's inner catch throws when the failed-attempt update is rejected
UnableToRecordError == ErrorObj("Error", "Unable to record invalid login for user.")

\* what bcrypt.hash(s, rounds, callback) hands to its callback: the hash, or
\* an error and no hash when it is given no salt rounds or no string
BcryptHashCallback(s, rounds) ==
  IF rounds = 0 \/ s = Nil
    THEN [err |-> <<ErrorObj("Error", "Illegal arguments")>>, hash |-> <<>>]
    ELSE [err |-> <<>>, hash |-> BcryptHash(s)]

(* ------------------------------ the store ----------------------------- *)
Username(id) == IF id = 1 THEN "alice" ELSE "bob@x"

Email(id) == IF id = 1 THEN "bob@x" ELSE "carol@x"

\* role labels of t_user_role
RolesOf(id) == IF id = 1 THEN {"admin", "user"} ELSE {"user"}

NewUser(id, status, must_reset) ==
  [id |-> id, username |-> Username(id), email |-> Email(id),
   password |-> BcryptHash("p1"), status |-> status,
   must_reset_password |-> must_reset, bad_login_attempts |-> 0,
   last_login |-> Null, login_count |-> 0,
   reset_password_token |-> Null, reset_password_token_expires |-> Null]

\* User.one(filter): the row whose column equals the value, as a sequence of
\* at most one row (empty when no row matches)
UserOne(column, value) ==
  LET hit == {id \in UserIds : users[id][column] = value}
  IN  IF hit = {} THEN <<>> ELSE <<users[CHOOSE id \in hit : TRUE]>>

\* what User.one answers when no row matches, which the library decides and
\* _.isEmpty does not tell apart: null, or an object with no column
EmptyResults == {"null", "object"}

\* the object with no column: every column absent
NoRow ==
  [id |-> Null, username |-> Nil, email |-> Nil, password |-> <<>>,
   status |-> Nil, must_reset_password |-> FALSE, bad_login_attempts |-> Null,
   last_login |-> Null, login_count |-> Null,
   reset_password_token |-> Null, reset_password_token_expires |-> Null]

getByUsername(username) == UserOne("username", username)

getByEmail(email) == UserOne("email", email)

getByPasswordResetToken(token) == UserOne("reset_password_token", token)

\* User.update(row): the whole row is written under its id; a row with no
\* id matches nothing in the table
UserUpdate(row) ==
  IF row.id \in UserIds THEN [users EXCEPT ![row.id] = row] ELSE users

(* ------------------------------ calls --------------------------------- *)
NoCall ==
  [pc |-> "idle", op |-> "none", username |-> Nil, plainTextPassword |-> Nil,
   uidString |-> Nil, token |-> Null, newPlainTextPassword |-> Nil,
   theUser |-> <<>>, compareResult |-> "none",
   state |-> "pending", error |-> <<>>, value |-> <<>>,
   startTime |-> 0, countBefore |-> -1, afterRedeem |-> FALSE,
   afterReissue |-> FALSE, update |-> "none", badBefore |-> -1]

\* reject(err): the promise settles once; the closure is dropped
Reject(c, err) ==
  IF c.state = "pending"
    THEN [c EXCEPT !.pc = "done", !.state = "rejected", !.error = <<err>>,
                   !.theUser = <<>>]
    ELSE [c EXCEPT !.pc = "done", !.theUser = <<>>]

\* resolve(value)
Resolve(c, value) ==
  IF c.state = "pending"
    THEN [c EXCEPT !.state = "resolved", !.value = value]
    ELSE c

Idle(p) == calls[p].pc \in {"idle", "done"}

\* opts.max_bad_logins || 10
max_bad_logins ==
  IF opts.max_bad_logins = 0 THEN DefaultMaxBadLogins ELSE opts.max_bad_logins

(* ------------------------------ history ------------------------------- *)
\* streak[u]: consecutive wrong-password login calls completed against u since
\* its row was last active, not flagged for reset and with a zero counter.
\* -1: not tracked (the row did not start in that condition, or left it other
\* than by wrong passwords); once -1 it stays -1.
\* issuedAt[t], issuedTo[t]: when and for which user id token t was drawn.
\* completed: the tokens returned by generateResetPasswordToken, in order of
\* return.  applied: the pairs <<token, password>> of the rows a
\* resetPassword has written with a password other than the one it read.
\* live[u]: the token last returned for u, Null once a
\* resetPassword for u has reported success.
StreakBase(row) ==
  IF row.status = "active" /\ ~row.must_reset_password /\ row.bad_login_attempts = 0
    THEN 0 ELSE -1

StreakCap == max_bad_logins + 2

\* a login call for c.username has completed; rows is the table after it
StreakAfterLogin(c, rows) ==
  LET hit == {id \in UserIds : rows[id].username = c.username}
  IN  [id \in UserIds |->
        IF id \notin hit \/ hist.streak[id] = -1 THEN hist.streak[id]
        ELSE IF ~BcryptCompare(c.plainTextPassword, rows[id].password)
          THEN IF hist.streak[id] >= StreakCap THEN StreakCap
               ELSE hist.streak[id] + 1
          ELSE StreakBase(rows[id])]

\* login_count of the row with this username as a call starts (-1: no such row)
CountOf(username) ==
  LET hit == {id \in UserIds : users[id].username = username}
  IN  IF hit = {} THEN -1 ELSE users[CHOOSE id \in hit : TRUE].login_count

\* a generateResetPasswordToken call that returned this token has been
\* followed by the return of another one for the same user
Reissued(token) ==
  \E i, j \in 1 .. Len(hist.completed) :
    /\ i < j
    /\ hist.completed[i] = token
    /\ hist.issuedTo[hist.completed[j]] = hist.issuedTo[token]

\* one more call has been made (counted up to MaxCalls)
Started ==
  [hist EXCEPT !.started = IF @ >= MaxCalls THEN MaxCalls ELSE @ + 1]

(* ------------------------------ login --------------------------------- *)
\* loginCatch letting the lookup failure through to the caller
loginCatch_passNotFound(err) ==
  IF err.name = "InvalidPasswordError" THEN InvalidLogin ELSE err

\* loginCatch handing every error it does not know by name to the caller
loginCatch_passOther(err) ==
  IF err.name \in {"UserNotFoundError", "InvalidPasswordError"}
    THEN InvalidLogin
    ELSE err

\* the catch at the end of login's chain
loginCatch(err) ==
  IF err.name = "UserNotFoundError" THEN InvalidLogin
  ELSE IF err.name = "UserSuspendedError" THEN err
  ELSE IF err.name = "PasswordExpiredError" THEN err
  ELSE IF err.name = "InvalidPasswordError" THEN InvalidLogin
  ELSE InvalidLogin

\* _.isNil(username) || _.isNil(plainTextPassword)
loginArgsMissing(username, plainTextPassword) ==
  username = Nil \/ plainTextPassword = Nil

\* login(username, plainTextPassword): the promise executor, up to the
\* request User.one({username: username})
login(p, username, plainTextPassword) ==
  /\ Idle(p)
  /\ \A id \in UserIds : users[id].login_count < MaxLogins
  /\ LET c == [NoCall EXCEPT !.op = "login", !.username = username,
                              !.plainTextPassword = plainTextPassword,
                              !.startTime = now,
                              !.countBefore = CountOf(username)]
     IN  IF loginArgsMissing(username, plainTextPassword)
           THEN /\ calls' = [calls EXCEPT ![p] = Reject(c, InvalidLogin)]
           ELSE /\ calls' = [calls EXCEPT ![p] = [c EXCEPT !.pc = "login_one"]]
  /\ hist' = Started
  /\ UNCHANGED <<users, now, nextToken, opts, storeUp, webVars>>

\* loginCheckUser without the branch for a suspended user
loginCheckUser_noSuspended(c, user) ==
  IF user = <<>>
    THEN Reject(c, loginCatch(UserNotFoundError("No user found.")))
  ELSE IF user[1].must_reset_password
    THEN Reject(c, loginCatch(PasswordExpiredError))
  ELSE [c EXCEPT !.theUser = user, !.pc = "login_compare",
                 !.badBefore = user[1].bad_login_attempts]

\* loginCheckUser without the branch for must_reset_password
loginCheckUser_noMustReset(c, user) ==
  IF user = <<>>
    THEN Reject(c, loginCatch(UserNotFoundError("No user found.")))
  ELSE IF user[1].status = "suspended"
    THEN Reject(c, loginCatch(UserSuspendedError))
  ELSE [c EXCEPT !.theUser = user, !.pc = "login_compare",
                 !.badBefore = user[1].bad_login_attempts]

\* what the first .then of login does with the fetched user
loginCheckUser(c, user) ==
  IF user = <<>>
    THEN Reject(c, loginCatch(UserNotFoundError("No user found.")))
  ELSE IF user[1].status = "suspended"
    THEN Reject(c, loginCatch(UserSuspendedError))
  ELSE IF user[1].must_reset_password
    THEN Reject(c, loginCatch(PasswordExpiredError))
  ELSE [c EXCEPT !.theUser = user, !.pc = "login_compare",
                 !.badBefore = user[1].bad_login_attempts]

\* User.one answers and the first .then runs, or User.one is rejected and
\* the catch runs
login_one(p) ==
  /\ calls[p].pc = "login_one"
  /\ LET c == IF storeUp
                THEN loginCheckUser(calls[p], getByUsername(calls[p].username))
                ELSE Reject(calls[p], loginCatch(StoreError))
     IN  /\ calls' = [calls EXCEPT ![p] = c]
         /\ hist' = IF c.pc = "done"
                      THEN [hist EXCEPT !.streak = StreakAfterLogin(c, users)]
                      ELSE hist
  /\ UNCHANGED <<users, now, nextToken, opts, storeUp, webVars>>

\* loginSuccessUpdate leaving login_count alone
loginSuccessUpdate_noCount(u, t) ==
  [u EXCEPT !.bad_login_attempts = 0, !.last_login = Format(t)]

\* the counters a correct password sets on theUser
loginSuccessUpdate(u, t) ==
  [u EXCEPT !.bad_login_attempts = 0,
            !.last_login = Format(t),
            !.login_count = u.login_count + 1]

\* loginFailureUpdate suspending only above the threshold
loginFailureUpdate_above(u) ==
  LET n == u.bad_login_attempts + 1
  IN  [u EXCEPT !.bad_login_attempts = n,
                !.status = IF n > max_bad_logins THEN "suspended" ELSE u.status]

\* loginFailureUpdate counting without ever suspending
loginFailureUpdate_countOnly(u) ==
  [u EXCEPT !.bad_login_attempts = u.bad_login_attempts + 1]

\* the counters a wrong password sets on theUser
loginFailureUpdate(u) ==
  LET n == u.bad_login_attempts + 1
  IN  [u EXCEPT !.bad_login_attempts = n,
                !.status = IF n >= max_bad_logins THEN "suspended" ELSE u.status]

\* login_compare rejecting on a wrong password before User.update is asked for
login_compare_rejectFirst(p) ==
  /\ calls[p].pc = "login_compare"
  /\ LET c == calls[p]
         u == c.theUser[1]
     IN  IF BcryptCompare(c.plainTextPassword, u.password)
           THEN IF u.status = "active"
                  THEN calls' = [calls EXCEPT ![p] =
                         [c EXCEPT !.compareResult = "true",
                                   !.theUser = <<loginSuccessUpdate(u, now)>>,
                                   !.pc = "login_update"]]
                  ELSE calls' = [calls EXCEPT ![p] =
                         Reject([c EXCEPT !.compareResult = "true"], UserSuspendedError)]
           ELSE calls' = [calls EXCEPT ![p] =
                  [Reject(c, loginCatch(InvalidPasswordError))
                     EXCEPT !.compareResult = "false",
                            !.theUser = <<loginFailureUpdate(u)>>,
                            !.pc = "login_update"]]
  /\ hist' = IF calls'[p].pc = "done"
               THEN [hist EXCEPT !.streak = StreakAfterLogin(calls'[p], users)]
               ELSE hist
  /\ UNCHANGED <<users, now, nextToken, opts, storeUp, webVars>>

\* bcrypt.compare answers and the second .then runs, up to the request
\* User.update(theUser)
login_compare(p) ==
  /\ calls[p].pc = "login_compare"
  /\ LET c == calls[p]
         u == c.theUser[1]
     IN  IF BcryptCompare(c.plainTextPassword, u.password)
           THEN IF u.status = "active"
                  THEN calls' = [calls EXCEPT ![p] =
                         [c EXCEPT !.compareResult = "true",
                                   !.theUser = <<loginSuccessUpdate(u, now)>>,
                                   !.pc = "login_update"]]
                  ELSE calls' = [calls EXCEPT ![p] =
                         Reject([c EXCEPT !.compareResult = "true"], UserSuspendedError)]
           ELSE calls' = [calls EXCEPT ![p] =
                  [c EXCEPT !.compareResult = "false",
                            !.theUser = <<loginFailureUpdate(u)>>,
                            !.pc = "login_update"]]
  /\ hist' = IF calls'[p].pc = "done"
               THEN [hist EXCEPT !.streak = StreakAfterLogin(calls'[p], users)]
               ELSE hist
  /\ UNCHANGED <<users, now, nextToken, opts, storeUp, webVars>>

\* login_update adding one to the stored counter instead of writing the one
\* it computed from the row it read
login_update_reread(p) ==
  /\ calls[p].pc = "login_update"
  /\ LET c == [calls[p] EXCEPT !.update = IF storeUp THEN "ok" ELSE "failed"]
         u == IF c.compareResult = "false"
                THEN loginFailureUpdate(
                       [c.theUser[1] EXCEPT !.bad_login_attempts =
                          users[c.theUser[1].id].bad_login_attempts])
                ELSE c.theUser[1]
         rows == IF storeUp THEN UserUpdate(u) ELSE users
     IN  /\ users' = rows
         /\ IF c.compareResult = "true" /\ storeUp
              THEN /\ calls' = [calls EXCEPT ![p] = [c EXCEPT !.pc = "login_roles"]]
                   /\ hist' = hist
              ELSE /\ calls' = [calls EXCEPT ![p] =
                          Reject(c, loginCatch(
                            IF ~storeUp /\ c.compareResult = "true" THEN StoreError
                            ELSE IF ~storeUp THEN UnableToRecordError
                            ELSE InvalidPasswordError))]
                   /\ hist' = [hist EXCEPT !.streak = StreakAfterLogin(c, rows)]
  /\ UNCHANGED <<now, nextToken, opts, storeUp, webVars>>

\* User.update(theUser): the whole row is written under its id, or the
\* request is rejected and nothing is written.  After a wrong password the
\* chain throws InvalidPasswordError into the catch, or, the update rejected,
\* the error of the inner catch; after a correct one it asks for the roles,
\* or, the update rejected, lands in the catch.
login_update(p) ==
  /\ calls[p].pc = "login_update"
  /\ LET c == [calls[p] EXCEPT !.update = IF storeUp THEN "ok" ELSE "failed"]
         u == c.theUser[1]
         rows == IF storeUp THEN UserUpdate(u) ELSE users
     IN  /\ users' = rows
         /\ IF c.compareResult = "true" /\ storeUp
              THEN /\ calls' = [calls EXCEPT ![p] = [c EXCEPT !.pc = "login_roles"]]
                   /\ hist' = hist
              ELSE /\ calls' = [calls EXCEPT ![p] =
                          Reject(c, loginCatch(
                            IF ~storeUp /\ c.compareResult = "true" THEN StoreError
                            ELSE IF ~storeUp THEN UnableToRecordError
                            ELSE InvalidPasswordError))]
                   /\ hist' = [hist EXCEPT !.streak = StreakAfterLogin(c, rows)]
  /\ UNCHANGED <<now, nextToken, opts, storeUp, webVars>>

\* UserRole.getRolesForUser answers; the roles are set on theUser and the
\* promise resolves with it; or the request is rejected and the catch runs
login_roles(p) ==
  /\ calls[p].pc = "login_roles"
  /\ LET c == calls[p]
         u == c.theUser[1]
         done == IF storeUp
                   THEN Resolve(c, <<[user |-> u, roles |-> RolesOf(u.id)]>>)
                   ELSE Reject(c, loginCatch(StoreError))
     IN  /\ calls' = [calls EXCEPT ![p] = [done EXCEPT !.pc = "done", !.theUser = <<>>]]
         /\ hist' = [hist EXCEPT !.streak = StreakAfterLogin(c, users),
                                 !.successes[u.id] =
                                   IF @ = -1 \/ ~storeUp THEN @ ELSE @ + 1]
  /\ UNCHANGED <<users, now, nextToken, opts, storeUp, webVars>>

(* ------------------------------ generateResetPasswordToken ----------- *)
\* generateResetPasswordToken(uidString): up to the request User.getByEmail
generateResetPasswordToken(p, uidString) ==
  /\ Idle(p)
  /\ nextToken <= MaxTokens
  /\ calls' = [calls EXCEPT ![p] =
        [NoCall EXCEPT !.op = "generateResetPasswordToken",
                       !.uidString = uidString, !.startTime = now,
                       !.pc = "gen_email"]]
  /\ hist' = Started
  /\ UNCHANGED <<users, now, nextToken, opts, storeUp, webVars>>

\* generateToken setting the token without its expiry
generateToken_tokenOnly(user, token, t) ==
  [user EXCEPT !.reset_password_token = token]

\* the token and its expiry set on the fetched user
generateToken(user, token, t) ==
  [user EXCEPT !.reset_password_token = token,
               !.reset_password_token_expires = Format(AddDay(t))]

\* the second .then of generateResetPasswordToken with a user in hand, up to
\* the request User.update(theUser)
generateFound(p, user) ==
  /\ calls' = [calls EXCEPT ![p] =
        [calls[p] EXCEPT !.theUser = <<generateToken(user[1], nextToken, now)>>,
                         !.pc = "gen_update"]]
  /\ nextToken' = nextToken + 1
  /\ hist' = [hist EXCEPT !.issuedAt = Append(@, now),
                          !.issuedTo = Append(@, user[1].id)]

\* the catch at the end of generateResetPasswordToken's chain: the error is
\* handed to reject as it came
generateCatch(p, err) ==
  /\ calls' = [calls EXCEPT ![p] = Reject(calls[p], err)]
  /\ UNCHANGED <<nextToken, hist>>

\* gen_getByEmail asking by username first
gen_getByEmail_usernameFirst(p) ==
  /\ calls[p].pc = "gen_email"
  /\ LET user == getByUsername(calls[p].uidString)
     IN  IF user = <<>>
           THEN /\ calls' = [calls EXCEPT ![p] = [calls[p] EXCEPT !.pc = "gen_username"]]
                /\ UNCHANGED <<nextToken, hist>>
           ELSE generateFound(p, user)
  /\ UNCHANGED <<users, now, opts, storeUp, webVars>>

\* User.getByEmail answers
gen_getByEmail(p) ==
  /\ calls[p].pc = "gen_email"
  /\ LET user == getByEmail(calls[p].uidString)
     IN  IF ~storeUp
           THEN generateCatch(p, StoreError)
         ELSE IF user = <<>>
           THEN /\ calls' = [calls EXCEPT ![p] = [calls[p] EXCEPT !.pc = "gen_username"]]
                /\ UNCHANGED <<nextToken, hist>>
           ELSE generateFound(p, user)
  /\ UNCHANGED <<users, now, opts, storeUp, webVars>>

\* the second .then of generateResetPasswordToken with no user in hand: the
\* promise is rejected and the handler goes on.  On null the assignment of
\* the token throws into the catch; on an object with no column the token is
\* set on it and User.update is requested with it.
generateNotFound(p, empty) ==
  LET c == Reject(calls[p], UserNotFoundError("Unable to reset password."))
  IN  IF empty = "null"
        THEN /\ calls' = [calls EXCEPT ![p] = c]
             /\ UNCHANGED <<nextToken, hist>>
        ELSE /\ calls' = [calls EXCEPT ![p] =
                    [c EXCEPT !.theUser = <<generateToken(NoRow, nextToken, now)>>,
                              !.pc = "gen_update"]]
             /\ nextToken' = nextToken + 1
             /\ hist' = [hist EXCEPT !.issuedAt = Append(@, now),
                                     !.issuedTo = Append(@, Null)]

\* User.getByUsername answers
gen_getByUsername(p) ==
  /\ calls[p].pc = "gen_username"
  /\ LET user == getByUsername(calls[p].uidString)
     IN  IF ~storeUp
           THEN generateCatch(p, StoreError)
         ELSE IF user = <<>>
           THEN \E empty \in EmptyResults : generateNotFound(p, empty)
           ELSE generateFound(p, user)
  /\ UNCHANGED <<users, now, opts, storeUp, webVars>>

\* User.update(theUser) and resolve(user); or the update is rejected,
\* nothing is written and the catch runs
gen_update(p) ==
  /\ calls[p].pc = "gen_update"
  /\ LET c == [calls[p] EXCEPT !.update = IF storeUp THEN "ok" ELSE "failed"]
         u == c.theUser[1]
     IN  IF storeUp
           THEN /\ users' = UserUpdate(u)
                /\ calls' = [calls EXCEPT ![p] =
                      [Resolve(c, <<u>>) EXCEPT !.pc = "done", !.theUser = <<>>]]
                /\ hist' = IF c.state = "pending"
                             THEN [hist EXCEPT
                                     !.completed = Append(@, u.reset_password_token),
                                     !.live[u.id] = u.reset_password_token]
                             ELSE hist
           ELSE /\ users' = users
                /\ calls' = [calls EXCEPT ![p] = Reject(c, StoreError)]
                /\ hist' = hist
  /\ UNCHANGED <<now, nextToken, opts, storeUp, webVars>>

(* ------------------------------ resetPassword ------------------------- *)
\* resetPassword(token, newPlainTextPassword): up to the request
\* User.getByPasswordResetToken
resetPassword(p, token, newPlainTextPassword) ==
  /\ Idle(p)
  /\ calls' = [calls EXCEPT ![p] =
        [NoCall EXCEPT !.op = "resetPassword", !.token = token,
                       !.newPlainTextPassword = newPlainTextPassword,
                       !.startTime = now,
                       !.afterRedeem = (token \in hist.redeemed),
                       !.afterReissue = Reissued(token),
                       !.pc = "reset_one"]]
  /\ hist' = Started
  /\ UNCHANGED <<users, now, nextToken, opts, storeUp, webVars>>

\* resetCheckUser refusing a token at the very instant of its expiry
resetCheckUser_sameOrBefore(c, user, t) ==
  IF user = <<>>
    THEN Reject(c, InvalidResetTokenError)
  ELSE IF user[1].reset_password_token_expires <= t
    THEN Reject(c, ExpiredResetTokenError)
  ELSE Resolve([c EXCEPT !.theUser = user, !.pc = "reset_hash"], <<>>)

\* the first .then of resetPassword: it rejects, or starts bcrypt.hash and
\* returns nothing, and then the second .then resolves with that nothing
resetCheckUser(c, user, t) ==
  IF user = <<>>
    THEN Reject(c, InvalidResetTokenError)
  ELSE IF IsBefore(user[1].reset_password_token_expires, t)
    THEN Reject(c, ExpiredResetTokenError)
  ELSE Resolve([c EXCEPT !.theUser = user, !.pc = "reset_hash"], <<>>)

\* reset_one wiping the token of a row it finds expired
reset_one_clearsExpired(p) ==
  /\ calls[p].pc = "reset_one"
  /\ LET user == getByPasswordResetToken(calls[p].token)
         c == IF storeUp
                THEN resetCheckUser(calls[p], user, now)
                ELSE Reject(calls[p], StoreError)
     IN  /\ calls' = [calls EXCEPT ![p] = c]
         /\ users' = IF storeUp /\ c.error = <<ExpiredResetTokenError>>
                       THEN [users EXCEPT
                               ![user[1].id].reset_password_token = Null,
                               ![user[1].id].reset_password_token_expires = Null]
                       ELSE users
         /\ hist' = IF c.state = "resolved"
                      THEN [hist EXCEPT !.redeemed = @ \cup {c.token},
                                        !.live[c.theUser[1].id] = Null]
                      ELSE hist
  /\ UNCHANGED <<now, nextToken, opts, storeUp, webVars>>

\* User.getByPasswordResetToken answers
reset_one(p) ==
  /\ calls[p].pc = "reset_one"
  /\ LET c == IF storeUp
                THEN resetCheckUser(calls[p],
                                    getByPasswordResetToken(calls[p].token), now)
                ELSE Reject(calls[p], StoreError)
     IN  /\ calls' = [calls EXCEPT ![p] = c]
         /\ hist' = IF c.state = "resolved"
                      THEN [hist EXCEPT !.redeemed = @ \cup {c.token},
                                        !.live[c.theUser[1].id] = Null]
                      ELSE hist
  /\ UNCHANGED <<users, now, nextToken, opts, storeUp, webVars>>

\* resetUpdate leaving the token on the row
resetUpdate_keepToken(user, hash) ==
  [user EXCEPT !.password = hash,
               !.must_reset_password = FALSE,
               !.bad_login_attempts = 0]

\* what the bcrypt.hash callback sets on the user
resetUpdate(user, hash) ==
  [user EXCEPT !.password = hash,
               !.must_reset_password = FALSE,
               !.reset_password_token = Null,
               !.reset_password_token_expires = Null,
               !.bad_login_attempts = 0]

\* the bcrypt.hash callback runs, looking at the hash and not at the error,
\* and User.update(user) writes the row; or the update is rejected, which
\* nothing handles.  The promise has settled before either.
reset_hash(p) ==
  /\ calls[p].pc = "reset_hash"
  /\ \E undefinedColumn \in UndefinedColumns :
       LET c == [calls[p] EXCEPT !.update = IF storeUp THEN "ok" ELSE "failed"]
           user == c.theUser[1]
           cb == BcryptHashCallback(c.newPlainTextPassword, opts.salt_rounds)
           hash == IF cb.err = <<>> THEN cb.hash
                   ELSE IF undefinedColumn = "null" THEN <<>>
                   ELSE user.password
           u == resetUpdate(user, hash)
           rows == IF storeUp THEN UserUpdate(u) ELSE users
       IN  /\ users' = rows
           /\ calls' = [calls EXCEPT ![p] = [c EXCEPT !.pc = "done", !.theUser = <<>>]]
           /\ hist' = [hist EXCEPT
                          !.streak[u.id] =
                            IF @ = -1 THEN -1 ELSE StreakBase(rows[u.id]),
                          !.applied =
                            IF storeUp /\ u.password # user.password
                              THEN @ \cup {<<c.token, u.password>>}
                              ELSE @]
  /\ UNCHANGED <<now, nextToken, opts, storeUp, webVars>>

(* ------------------------------ the database -------------------------- *)
\* the database stops answering (at most MaxOutages times)
StoreDown ==
  /\ storeUp
  /\ hist.outages < MaxOutages
  /\ storeUp' = FALSE
  /\ hist' = [hist EXCEPT !.outages = @ + 1]
  /\ UNCHANGED <<users, now, nextToken, opts, calls, webVars>>

\* the database answers again
StoreBack ==
  /\ ~storeUp
  /\ storeUp' = TRUE
  /\ UNCHANGED <<now, coreVars, webVars>>

(* ------------------------------ session reaper ------------------------ *)
SessionIds == 1 .. MaxSessions

\* a timestamp column holds whole seconds
SessionExpiries == {k * TicksPerSec : k \in 0 .. MaxExpirySecs}

\* CURRENT_TIMESTAMP: the present, in whole seconds
CurrentTimestamp == Format(now)

NoReaper == [armed |-> FALSE, level |-> "none", affectedRows |-> 0]

\* Session.deleteWhereExpired written with "at or before"
deleteWhereExpired_atOrBefore ==
  {s \in DOMAIN sessions : sessions[s] <= CurrentTimestamp}

\* Session.deleteWhereExpired(): the rows that
\* deleteWhere('expires < CURRENT_TIMESTAMP') removes
deleteWhereExpired ==
  {s \in DOMAIN sessions : sessions[s] < CurrentTimestamp}

\* reapExpiredSessions(): setInterval arms the timer
reapExpiredSessions ==
  /\ ~reaper.armed
  /\ reaper' = [reaper EXCEPT !.armed = TRUE]
  /\ UNCHANGED <<now, coreVars, storeUp, sessions, req, res>>

\* the .then of the interval callback: the count is logged
reaperThen(r, affectedRows) ==
  [r EXCEPT !.level = "info", !.affectedRows = affectedRows]

\* reaperCatch clearing the interval
reaperCatch_stops(r) ==
  [r EXCEPT !.level = "error", !.affectedRows = 0, !.armed = FALSE]

\* the .catch of the interval callback: the error is logged
reaperCatch(r) ==
  [r EXCEPT !.level = "error", !.affectedRows = 0]

\* the interval elapses: the callback asks for deleteWhereExpired and logs
\* what comes back
reaperTick ==
  /\ reaper.armed
  /\ IF storeUp
       THEN LET gone == deleteWhereExpired
            IN  /\ sessions' = [s \in (DOMAIN sessions) \ gone |-> sessions[s]]
                /\ reaper' = reaperThen(reaper, Cardinality(gone))
                /\ hist' = hist
       ELSE /\ sessions' = sessions
            /\ reaper' = reaperCatch(reaper)
            /\ hist' = [hist EXCEPT !.reaperFailed = TRUE]
  /\ UNCHANGED <<users, now, nextToken, opts, calls, storeUp, req, res>>

(* ------------------------------ route guard --------------------------- *)
Paths == {"/home", "/admin"}

\* the user object a session carries: whether it has any property, and the
\* id and status among them
Identity(row) == [columns |-> TRUE, id |-> row.id, status |-> row.status]

\* an object with no property
EmptyObject == [columns |-> FALSE, id |-> Null, status |-> Nil]

\* req.session: whether it is defined, whether it has the cookie property,
\* and its user property (<<>>: none)
NoSession == [defined |-> FALSE, cookie |-> FALSE, user |-> <<>>]

NoRequest == [session |-> NoSession, path |-> Nil]

NoResponse == [handler |-> "none", next |-> 0, redirect |-> <<>>, render |-> <<>>]

\* _.isEmpty(req.session)
isEmptySession(session) ==
  ~session.defined \/ (~session.cookie /\ session.user = <<>>)

\* _.isEmpty(req.session.user)
isEmptyUser(user) == user = <<>> \/ ~user[1].columns

\* res.redirect('/login' + '?rp=' + req.path)
RedirectToLogin(path) ==
  [handler |-> "secureFollowingRoutes", next |-> 0,
   redirect |-> <<[to |-> "/login", rp |-> path]>>, render |-> <<>>]

\* next()
CallNext ==
  [handler |-> "secureFollowingRoutes", next |-> 1, redirect |-> <<>>, render |-> <<>>]

\* secureFollowingRoutes letting any user object through
secureFollowingRoutes_noStatus(session, path) ==
  [session |-> session,
   res |-> IF isEmptySession(session) THEN RedirectToLogin(path)
           ELSE IF isEmptyUser(session.user) THEN RedirectToLogin(path)
           ELSE CallNext]

\* secureFollowingRoutes reading the status from t_user and putting it on
\* the session
secureFollowingRoutes_refetch(session, path) ==
  IF isEmptySession(session) \/ isEmptyUser(session.user)
       \/ session.user[1].id \notin UserIds
    THEN [session |-> session, res |-> RedirectToLogin(path)]
    ELSE LET fresh == Identity(users[session.user[1].id])
         IN  [session |-> [session EXCEPT !.user = <<fresh>>],
              res |-> IF fresh.status = "active" THEN CallNext
                      ELSE RedirectToLogin(path)]

\* security.secureFollowingRoutes(req, res, next): the session it leaves and
\* the signal it gives
secureFollowingRoutes(session, path) ==
  [session |-> session,
   res |-> IF isEmptySession(session) THEN RedirectToLogin(path)
           ELSE IF isEmptyUser(session.user) THEN RedirectToLogin(path)
           ELSE IF session.user[1].status = "active" THEN CallNext
           ELSE RedirectToLogin(path)]

\* a request for a protected path reaches the guard
Request(path) ==
  /\ LET done == secureFollowingRoutes(req.session, path)
     IN  /\ req' = [session |-> done.session, path |-> path]
         /\ res' = done.res
  /\ UNCHANGED <<now, coreVars, storeUp, sessions, reaper>>

\* the .then of loginRoute: the user is placed on req.session, if it exists,
\* and the browser is sent on
loginRoute_then(p) ==
  /\ calls[p].op = "login" /\ calls[p].pc = "done" /\ calls[p].state = "resolved"
  /\ req' = IF req.session.defined
              THEN [req EXCEPT !.session.user = <<Identity(calls[p].value[1].user)>>]
              ELSE req
  /\ res' = [handler |-> "loginRoute", next |-> 0,
             redirect |-> <<[to |-> "/home", rp |-> Nil]>>, render |-> <<>>]
  /\ calls' = [calls EXCEPT ![p].pc = "idle"]
  /\ UNCHANGED <<users, now, nextToken, opts, hist, storeUp, sessions, reaper>>

\* the .catch of loginRoute: the login view is rendered with the message
loginRoute_catch(p) ==
  /\ calls[p].op = "login" /\ calls[p].pc = "done" /\ calls[p].state = "rejected"
  /\ res' = [handler |-> "loginRoute", next |-> 0, redirect |-> <<>>,
             render |-> <<[view |-> "login", error |-> calls[p].error[1].message]>>]
  /\ calls' = [calls EXCEPT ![p].pc = "idle"]
  /\ UNCHANGED <<users, now, nextToken, opts, hist, storeUp, sessions, reaper, req>>

(* ------------------------------ the clock ----------------------------- *)
Tick ==
  /\ now < MaxTime
  /\ now' = now + 1
  /\ UNCHANGED <<users, nextToken, opts, calls, hist, storeUp, webVars>>

(* ------------------------------ inputs -------------------------------- *)
\* known and unknown names; right, wrong, empty and missing values
Usernames == {"alice", "mallory", "", Nil}

Passwords == {"p1", "p2", "", Nil}

UidStrings == {"alice", "bob@x", "nobody"}

NewPasswords == {"p2", "p3"}

\* the tokens a caller can present: every one issued so far, and one never issued
Tokens == 0 .. (nextToken - 1)

\* the calls that contend for one row
RacingUsernames == {"alice"}

RacingPasswords == {"p1", "p2"}

RacingUidStrings == {"alice"}

(* ------------------------------ specification ------------------------- *)
InitRows ==
  \E st \in {"active", "suspended"}, mr \in BOOLEAN :
    users = [id \in UserIds |->
              IF id = 1 THEN NewUser(id, st, mr) ELSE NewUser(id, "active", FALSE)]

InitHist(tracked) ==
  [streak |-> [id \in UserIds |-> IF tracked THEN StreakBase(users[id]) ELSE -1],
   successes |-> [id \in UserIds |-> IF tracked THEN 0 ELSE -1],
   redeemed |-> {},
   applied |-> {},
   issuedAt |-> <<>>,
   issuedTo |-> <<>>,
   completed |-> <<>>,
   live |-> [id \in UserIds |-> Null],
   outages |-> 0,
   reaperFailed |-> FALSE,
   started |-> 0]

\* the session side at rest: no session row, no timer, no request
InitWeb ==
  /\ storeUp = TRUE
  /\ sessions = [s \in {} |-> 0]
  /\ reaper = NoReaper
  /\ req = NoRequest
  /\ res = NoResponse

\* concurrent callers making MaxCalls calls, clock at rest
Init ==
  /\ InitWeb
  /\ InitRows
  /\ now = 0
  /\ nextToken = 1
  /\ opts = [max_bad_logins |-> ConfiguredMaxBadLogins, salt_rounds |-> SaltRounds]
  /\ calls = [p \in Procs |-> NoCall]
  /\ hist = InitHist(FALSE)

\* one caller, any number of calls, clock at rest, max_bad_logins given or not
InitSeq ==
  /\ InitWeb
  /\ InitRows
  /\ now = 0
  /\ nextToken = 1
  /\ opts \in {[max_bad_logins |-> m, salt_rounds |-> SaltRounds] :
               m \in {0, ConfiguredMaxBadLogins}}
  /\ calls = [p \in Procs |-> NoCall]
  /\ hist = InitHist(TRUE)

\* one caller making MaxCalls calls while the clock runs
InitTime ==
  /\ InitWeb
  /\ InitRows
  /\ now = 0
  /\ nextToken = 1
  /\ opts = [max_bad_logins |-> ConfiguredMaxBadLogins, salt_rounds |-> SaltRounds]
  /\ calls = [p \in Procs |-> NoCall]
  /\ hist = InitHist(TRUE)

\* caller p makes a call
Start(p, usernames, passwords, uidStrings, newPasswords) ==
  \/ \E username \in usernames, pw \in passwords : login(p, username, pw)
  \/ \E uidString \in uidStrings : generateResetPasswordToken(p, uidString)
  \/ \E token \in Tokens, pw \in newPasswords : resetPassword(p, token, pw)

\* the call of caller p takes its next step
Run(p) ==
  \/ login_one(p)
  \/ login_compare(p)
  \/ login_update(p)
  \/ login_roles(p)
  \/ gen_getByEmail(p)
  \/ gen_getByUsername(p)
  \/ gen_update(p)
  \/ reset_one(p)
  \/ reset_hash(p)

Next ==
  \E p \in Procs :
    \/ /\ hist.started < MaxCalls
       /\ Start(p, RacingUsernames, RacingPasswords, RacingUidStrings, NewPasswords)
    \/ Run(p)

NextSeq ==
  \/ Start(1, Usernames, Passwords, UidStrings, NewPasswords)
  \/ Run(1)

NextTime ==
  \/ Tick
  \/ /\ hist.started < MaxCalls
     /\ Start(1, RacingUsernames, RacingPasswords, RacingUidStrings, NewPasswords)
  \/ Run(1)

Spec == Init /\ [][Next]_vars

SpecSeq == InitSeq /\ [][NextSeq]_vars

SpecTime == InitTime /\ [][NextTime]_vars

\* the sessions a request can arrive with
InitSessions ==
  {NoSession,
   [defined |-> TRUE, cookie |-> FALSE, user |-> <<>>],
   [defined |-> TRUE, cookie |-> TRUE, user |-> <<>>],
   [defined |-> TRUE, cookie |-> TRUE, user |-> <<EmptyObject>>]}
  \cup {[defined |-> TRUE, cookie |-> TRUE,
         user |-> <<[columns |-> TRUE, id |-> 1, status |-> st]>>] :
          st \in {"active", "suspended", "inactive"}}

\* one browser: logins through loginRoute and requests through the guard
InitGuard ==
  /\ InitRows
  /\ now = 0
  /\ nextToken = 1
  /\ opts = [max_bad_logins |-> ConfiguredMaxBadLogins, salt_rounds |-> SaltRounds]
  /\ calls = [p \in Procs |-> NoCall]
  /\ hist = InitHist(TRUE)
  /\ storeUp = TRUE
  /\ sessions = [s \in {} |-> 0]
  /\ reaper = NoReaper
  /\ req \in {[session |-> session, path |-> Nil] : session \in InitSessions}
  /\ res = NoResponse

\* the steps of a login call
RunLogin(p) ==
  \/ login_one(p)
  \/ login_compare(p)
  \/ login_update(p)
  \/ login_roles(p)

NextGuard ==
  \/ \E username \in RacingUsernames, pw \in RacingPasswords : login(1, username, pw)
  \/ RunLogin(1)
  \/ loginRoute_then(1)
  \/ loginRoute_catch(1)
  \/ \E path \in Paths : Request(path)

SpecGuard == InitGuard /\ [][NextGuard]_vars

\* one caller logging in while the database comes and goes
InitStore ==
  /\ InitWeb
  /\ InitRows
  /\ now = 0
  /\ nextToken = 1
  /\ opts = [max_bad_logins |-> ConfiguredMaxBadLogins, salt_rounds |-> SaltRounds]
  /\ calls = [p \in Procs |-> NoCall]
  /\ hist = InitHist(TRUE)

NextStore ==
  \/ \E username \in RacingUsernames, pw \in RacingPasswords : login(1, username, pw)
  \/ RunLogin(1)
  \/ StoreDown
  \/ StoreBack

SpecStore == InitStore /\ [][NextStore]_vars

\* one caller asking for tokens and redeeming them while the database comes
\* and goes, the salt rounds given or left out
InitRecover ==
  /\ InitWeb
  /\ InitRows
  /\ now = 0
  /\ nextToken = 1
  /\ opts \in {[max_bad_logins |-> ConfiguredMaxBadLogins, salt_rounds |-> r] :
               r \in {0, SaltRounds}}
  /\ calls = [p \in Procs |-> NoCall]
  /\ hist = InitHist(TRUE)

NextRecover ==
  \/ \E uidString \in UidStrings : generateResetPasswordToken(1, uidString)
  \/ \E token \in Tokens, pw \in NewPasswords : resetPassword(1, token, pw)
  \/ gen_getByEmail(1)
  \/ gen_getByUsername(1)
  \/ gen_update(1)
  \/ reset_one(1)
  \/ reset_hash(1)
  \/ StoreDown
  \/ StoreBack

SpecRecover == InitRecover /\ [][NextRecover]_vars

\* the session table under the reaper while the clock runs and the database
\* comes and goes
InitReaper ==
  /\ InitRows
  /\ now = 0
  /\ nextToken = 1
  /\ opts = [max_bad_logins |-> ConfiguredMaxBadLogins, salt_rounds |-> SaltRounds]
  /\ calls = [p \in Procs |-> NoCall]
  /\ hist = InitHist(TRUE)
  /\ storeUp = TRUE
  /\ \E present \in SUBSET SessionIds :
       sessions \in [present -> SessionExpiries]
  /\ reaper = NoReaper
  /\ req = NoRequest
  /\ res = NoResponse

NextReaper ==
  \/ Tick
  \/ reapExpiredSessions
  \/ reaperTick
  \/ StoreDown
  \/ StoreBack

SpecReaper == InitReaper /\ [][NextReaper]_vars

\* the timer fires again and again, the clock runs, and an outage ends
SpecReaperFair ==
  /\ SpecReaper
  /\ WF_vars(Tick)
  /\ WF_vars(reaperTick)
  /\ WF_vars(StoreBack)

(* ====================================================================== *)
(* Properties                                                             *)
(* ====================================================================== *)
Known(username) == \E id \in UserIds : users[id].username = username

Failed(c, err) == c.state = "rejected" /\ c.error = <<err>>

\* the call of p takes the step that leaves position pc
Leaves(p, pc) == calls[p].pc = pc /\ calls'[p].pc # pc

Quiet == \A p \in Procs : Idle(p)

(* ---------------------------------------------------------------------- *)
\* C1: with the threshold T = max_bad_logins (10 when the option is not
\* given), the k-th of consecutive wrong-password logins against an account
\* that started active with a zero counter leaves it active for k < T,
\* suspends it at k = T, fails with 'Invalid login.' for every k <= T, and
\* fails with the suspension error at k = T + 1.
C1_ThresholdSuspends ==
  \A p \in Procs : \A id \in UserIds :
    LET c == calls[p]
        k == hist.streak[id]
    IN  ( /\ c.op = "login" /\ c.pc = "done"
          /\ c.plainTextPassword # Nil
          /\ c.username = users[id].username
          /\ ~BcryptCompare(c.plainTextPassword, users[id].password)
          /\ k >= 1 )
        => /\ (k < max_bad_logins =>
                 users[id].status = "active" /\ Failed(c, InvalidLogin))
           /\ (k = max_bad_logins =>
                 users[id].status = "suspended" /\ Failed(c, InvalidLogin))
           /\ (k = max_bad_logins + 1 => Failed(c, UserSuspendedError))

\* the eleventh wrong password in a row, with max_bad_logins not given, has
\* been refused as suspended
C1_Witness ==
  /\ opts.max_bad_logins = 0
  /\ hist.streak[1] = DefaultMaxBadLogins + 1
  /\ calls[1].op = "login" /\ calls[1].pc = "done"
  /\ Failed(calls[1], UserSuspendedError)
  /\ users[1].bad_login_attempts = DefaultMaxBadLogins

(* ---------------------------------------------------------------------- *)
\* C2: once a resetPassword call with some token has reported success, every
\* resetPassword call made afterwards with the same token fails with
\* InvalidResetTokenError.
C2_SingleUse ==
  \A p \in Procs :
    LET c == calls[p]
    IN  (c.op = "resetPassword" /\ c.afterRedeem /\ c.pc \in {"reset_hash", "done"})
        => Failed(c, InvalidResetTokenError)

(* ---------------------------------------------------------------------- *)
\* C3: of two resetPassword calls that run concurrently with the same valid
\* token, at most one writes its password and reports success.
C3_NoDoubleApply ==
  \A p, q \in Procs :
    ( /\ p # q
      /\ calls[p].op = "resetPassword" /\ calls[q].op = "resetPassword"
      /\ calls[p].token = calls[q].token
      /\ ~calls[p].afterRedeem /\ ~calls[q].afterRedeem )
    => ~( /\ calls[p].pc = "done" /\ calls[p].state = "resolved"
          /\ calls[q].pc = "done" /\ calls[q].state = "resolved" )

(* ---------------------------------------------------------------------- *)
\* C4: a login for a username that matches no row fails with the plain Error
\* 'Invalid login.', and so does a login that failed the password comparison:
\* the two rejections are the same value.
C4_UnknownLikeWrongPassword ==
  \A p \in Procs :
    LET c == calls[p]
    IN  (c.op = "login" /\ c.pc = "done")
        => /\ (~Known(c.username) => Failed(c, InvalidLogin))
           /\ (c.compareResult = "false" => Failed(c, InvalidLogin))

\* a login for an unknown name, with a password given, has been refused
C4_Witness ==
  /\ calls[1].op = "login" /\ calls[1].pc = "done"
  /\ calls[1].username = "mallory" /\ calls[1].plainTextPassword = "p1"
  /\ Failed(calls[1], InvalidLogin)

(* ---------------------------------------------------------------------- *)
\* C5: when login's lookup finds a suspended row, the call fails with the
\* suspension error, whatever the password, and ends there: no row is
\* written and no comparison is made.
C5_SuspendedRefused ==
  [][ \A p \in Procs :
        LET user == getByUsername(calls[p].username)
        IN  ( /\ Leaves(p, "login_one")
              /\ user # <<>>
              /\ user[1].status = "suspended" )
            => /\ calls'[p].pc = "done"
               /\ Failed(calls'[p], UserSuspendedError)
               /\ calls'[p].compareResult = "none"
               /\ users' = users ]_vars

\* a login with the correct password has been refused as suspended
C5_Witness ==
  /\ calls[1].op = "login" /\ calls[1].pc = "done"
  /\ Failed(calls[1], UserSuspendedError)
  /\ users[1].username = calls[1].username
  /\ BcryptCompare(calls[1].plainTextPassword, users[1].password)

(* ---------------------------------------------------------------------- *)
\* C6: when login's lookup finds a row that is not suspended and has
\* must_reset_password set, the call fails with the password-expired error,
\* whatever the password, without any bcrypt.compare and without writing a row.
C6_MustResetRefused ==
  [][ \A p \in Procs :
        LET user == getByUsername(calls[p].username)
        IN  ( /\ Leaves(p, "login_one")
              /\ user # <<>>
              /\ user[1].status # "suspended"
              /\ user[1].must_reset_password )
            => /\ calls'[p].pc = "done"
               /\ Failed(calls'[p], PasswordExpiredError)
               /\ calls'[p].compareResult = "none"
               /\ users' = users ]_vars

\* a login with the correct password has been refused because the password
\* must be reset
C6_Witness ==
  /\ calls[1].op = "login" /\ calls[1].pc = "done"
  /\ Failed(calls[1], PasswordExpiredError)
  /\ users[1].username = calls[1].username
  /\ users[1].must_reset_password
  /\ users[1].bad_login_attempts = 0
  /\ BcryptCompare(calls[1].plainTextPassword, users[1].password)

C8_EmptyArgumentsRejectedFirst ==
  \A p \in Procs :
    LET c == calls[p]
    IN  ( /\ c.op = "login"
          /\ (c.username \in {Nil, ""} \/ c.plainTextPassword \in {Nil, ""}) )
        => /\ c.pc = "done"
           /\ Failed(c, InvalidLogin)
           /\ c.compareResult = "none"

(* ---------------------------------------------------------------------- *)
\* C9: a token issued at t0 expires at t0 + 1 day: resetPassword with it
\* succeeds at any time before t0 + 1 day, and after t0 + 1 day fails with
\* ExpiredResetTokenError and writes nothing.
C9_ExpiryAfterOneDay ==
  [][ \A p \in Procs :
        LET user == getByPasswordResetToken(calls[p].token)
        IN  (Leaves(p, "reset_one") /\ user # <<>>)
            => LET t0 == hist.issuedAt[calls[p].token]
               IN  /\ (now < AddDay(t0) => calls'[p].state = "resolved")
                   /\ (now > AddDay(t0) =>
                         Failed(calls'[p], ExpiredResetTokenError) /\ users' = users)
    ]_vars

\* C9 as amended: the expiry carried is t0 + 1 day cut to whole seconds;
\* resetPassword is accepted up to and including that instant, and after it
\* (so at any time after t0 + 1 day) fails with ExpiredResetTokenError and
\* writes nothing.
C9_ExpiryToTheSecond ==
  [][ \A p \in Procs :
        LET user == getByPasswordResetToken(calls[p].token)
        IN  (Leaves(p, "reset_one") /\ user # <<>>)
            => LET t0 == hist.issuedAt[calls[p].token]
                   expires == user[1].reset_password_token_expires
               IN  /\ expires = Format(AddDay(t0))
                   /\ (now <= expires =>
                         calls'[p].state = "resolved" /\ calls'[p].pc = "reset_hash")
                   /\ (now > expires =>
                         Failed(calls'[p], ExpiredResetTokenError) /\ users' = users)
                   /\ (now > AddDay(t0) => now > expires)
    ]_vars

\* a token issued off a second boundary has been refused as expired, its row
\* still holding it and the old password
C9_Witness ==
  /\ calls[1].op = "resetPassword" /\ calls[1].pc = "done"
  /\ Failed(calls[1], ExpiredResetTokenError)
  /\ hist.issuedAt[calls[1].token] % TicksPerSec # 0
  /\ users[1].reset_password_token = calls[1].token
  /\ users[1].password = BcryptHash("p1")

(* ---------------------------------------------------------------------- *)
\* C10: when resetPassword has resolved, the store holds the new password
\* hash with both token fields null, and the value resolved is that row.
C10_ResolvesAfterPersisting ==
  \A p \in Procs :
    LET c == calls[p]
    IN  (c.op = "resetPassword" /\ c.state = "resolved")
        => \E id \in UserIds :
             /\ users[id].password = BcryptHash(c.newPlainTextPassword)
             /\ users[id].reset_password_token = Null
             /\ users[id].reset_password_token_expires = Null
             /\ c.value = <<users[id]>>

(* ---------------------------------------------------------------------- *)
\* C11: a generateResetPasswordToken call whose identifier matches no row by
\* email and none by username fails with UserNotFoundError, and with the
\* second lookup answered the call is over: no token is drawn and no
\* User.update is asked for.
C11_NoMatchNoUpdate ==
  \A p \in Procs :
    LET c == calls[p]
    IN  ( /\ c.op = "generateResetPasswordToken"
          /\ getByEmail(c.uidString) = <<>>
          /\ getByUsername(c.uidString) = <<>>
          /\ c.pc \notin {"gen_email", "gen_username"} )
        => /\ c.pc = "done"
           /\ Failed(c, UserNotFoundError("Unable to reset password."))
           /\ c.theUser = <<>>

(* ---------------------------------------------------------------------- *)
\* C12: generateResetPasswordToken looks the identifier up by email first
\* and by username only when no email matches: when the identifier is the
\* email of row A and the username of row B, the update writes the token on
\* A, leaves B as it was and the call returns A; when it is only a username,
\* the token goes on that row.
C12_EmailFirst ==
  [][ \A p \in Procs :
        LET c == calls[p]
            A == getByEmail(c.uidString)
            B == getByUsername(c.uidString)
            token == c.theUser[1].reset_password_token
        IN  (Leaves(p, "gen_update") /\ c.state = "pending")
            => /\ (A # <<>> /\ B # <<>> /\ A[1].id # B[1].id)
                    => /\ token # Null
                       /\ users'[A[1].id].reset_password_token = token
                       /\ users'[B[1].id] = users[B[1].id]
                       /\ calls'[p].state = "resolved"
                       /\ calls'[p].value[1].id = A[1].id
               /\ (A = <<>> /\ B # <<>>)
                    => /\ users'[B[1].id].reset_password_token = token
                       /\ calls'[p].value[1].id = B[1].id
    ]_vars

\* a call with the string that is alice's email and bob's username has
\* returned alice's row with the token, and bob's row has none
C12_Witness ==
  /\ calls[1].op = "generateResetPasswordToken" /\ calls[1].state = "resolved"
  /\ calls[1].uidString = Email(1) /\ calls[1].uidString = Username(2)
  /\ calls[1].value[1].id = 1
  /\ users[1].reset_password_token = calls[1].value[1].reset_password_token
  /\ users[1].reset_password_token # Null
  /\ users[2].reset_password_token = Null

(* ---------------------------------------------------------------------- *)
\* C13: once a generateResetPasswordToken call for a user has returned after
\* an earlier one for the same user returned, a resetPassword call made with
\* the earlier token fails with InvalidResetTokenError; and at no time does
\* more than one token value find the row of a given user.
C13_ReissueInvalidates ==
  /\ \A p \in Procs :
       LET c == calls[p]
       IN  (c.op = "resetPassword" /\ c.afterReissue /\ c.pc \in {"reset_hash", "done"})
           => Failed(c, InvalidResetTokenError)
  /\ \A id \in UserIds :
       Cardinality({t \in Tokens : /\ getByPasswordResetToken(t) # <<>>
                                   /\ getByPasswordResetToken(t)[1].id = id}) <= 1

(* ---------------------------------------------------------------------- *)
\* C14: when generateResetPasswordToken resolves, the row it returns carries
\* the token stored for that user; and from then on, as long as no other
\* generateResetPasswordToken or resetPassword call is under way and no
\* resetPassword has reported success since, the token last returned for a
\* user is the one its row holds, whatever login calls overlapped the issue.
C14_ReturnedTokenIsLive ==
  /\ \A p \in Procs :
       LET c == calls[p]
       IN  ( /\ c.op = "generateResetPasswordToken" /\ c.state = "resolved"
             /\ hist.live[c.value[1].id] = c.value[1].reset_password_token )
           => \/ users[c.value[1].id].reset_password_token =
                   c.value[1].reset_password_token
              \/ \E q \in Procs :
                   /\ calls[q].op \in {"generateResetPasswordToken", "resetPassword"}
                   /\ ~Idle(q)
  /\ \A id \in UserIds :
       ( /\ hist.live[id] # Null
         /\ \A q \in Procs :
              calls[q].op \in {"generateResetPasswordToken", "resetPassword"} => Idle(q) )
       => users[id].reset_password_token = hist.live[id]

(* ---------------------------------------------------------------------- *)
\* C15: in every state of t_user, every row has reset_password_token and
\* reset_password_token_expires both null or both set, whatever calls of
\* login, generateResetPasswordToken and resetPassword ran or are running.
C15_TokenFieldsTogether ==
  \A id \in UserIds :
    (users[id].reset_password_token = Null)
      <=> (users[id].reset_password_token_expires = Null)

\* a row holds a token and its expiry after a redemption and a login have
\* written it
C15_Witness ==
  /\ users[1].reset_password_token # Null
  /\ users[1].reset_password_token_expires # Null
  /\ users[1].login_count > 0
  /\ hist.redeemed # {}

(* ---------------------------------------------------------------------- *)
\* C16: a reaper tick at time t that the database answers removes every
\* session row whose expires is at or before t and no other, leaves the
\* other rows as they were, and logs the number removed.
C16_ReapsAtOrBefore ==
  [][ (reaperTick /\ storeUp)
        => LET gone == {s \in DOMAIN sessions : sessions[s] <= now}
           IN  /\ DOMAIN sessions' = (DOMAIN sessions) \ gone
               /\ \A s \in DOMAIN sessions' : sessions'[s] = sessions[s]
               /\ reaper'.level = "info"
               /\ reaper'.affectedRows = Cardinality(gone)
    ]_vars

\* C16 as amended: the tick removes every session row whose expires is
\* before the second in which it runs and no other; a row that expires in
\* that very second stays.  The other rows are left as they were and the
\* number removed is logged.
C16_ReapsBeforeCurrentSecond ==
  [][ (reaperTick /\ storeUp)
        => LET gone == {s \in DOMAIN sessions : sessions[s] < Format(now)}
           IN  /\ DOMAIN sessions' = (DOMAIN sessions) \ gone
               /\ \A s \in DOMAIN sessions' : sessions'[s] = sessions[s]
               /\ \A s \in DOMAIN sessions :
                    sessions[s] = Format(now) => s \in DOMAIN sessions'
               /\ reaper'.level = "info"
               /\ reaper'.affectedRows = Cardinality(gone)
    ]_vars

\* a tick has removed one row and left one that expires in the current
\* second
C16_Witness ==
  /\ reaper.level = "info" /\ reaper.affectedRows = 1
  /\ Cardinality(DOMAIN sessions) = 1
  /\ \A s \in DOMAIN sessions : sessions[s] = CurrentTimestamp /\ sessions[s] <= now
  /\ now > 0

(* ---------------------------------------------------------------------- *)
\* C17: a tick that the database did not answer leaves the timer armed, and
\* the ticks go on: a session row that is expired when a tick has failed is
\* removed by a later tick, once the database answers again.
C17_FailedTickDoesNotStop ==
  /\ [](reaper.level = "error" => reaper.armed)
  /\ \A s \in SessionIds :
       ( /\ reaper.level = "error"
         /\ s \in DOMAIN sessions
         /\ sessions[s] < CurrentTimestamp )
       ~> (s \notin DOMAIN sessions)

\* after a tick that failed, a later tick has removed the expired rows
C17_Witness ==
  /\ hist.reaperFailed
  /\ reaper.armed
  /\ reaper.level = "info" /\ reaper.affectedRows >= 1
  /\ storeUp

(* ---------------------------------------------------------------------- *)
\* C18: the route guard calls next() exactly when the request has a session
\* with some property, the session has a user with some property, and that
\* user's status is 'active'; otherwise it redirects to /login with the
\* requested path as rp; and it gives one of the two signals, never both
\* and never none.
C18_GuardDecision ==
  res.handler = "secureFollowingRoutes"
    => LET session == req.session
           allowed == /\ session.defined
                      /\ (session.cookie \/ session.user # <<>>)
                      /\ session.user # <<>>
                      /\ session.user[1].columns
                      /\ session.user[1].status = "active"
       IN  /\ allowed => (res.next = 1 /\ res.redirect = <<>>)
           /\ ~allowed => ( /\ res.next = 0
                            /\ res.redirect = <<[to |-> "/login", rp |-> req.path]>> )
           /\ res.next + Len(res.redirect) = 1

\* a request for /admin with a session whose user is suspended has been
\* redirected to /login with rp=/admin
C18_Witness ==
  /\ res.handler = "secureFollowingRoutes"
  /\ req.path = "/admin"
  /\ req.session.user # <<>>
  /\ req.session.user[1].status = "suspended"
  /\ res.next = 0
  /\ res.redirect = <<[to |-> "/login", rp |-> "/admin"]>>

(* ---------------------------------------------------------------------- *)
\* C19: a step of the route guard writes neither the session nor t_user nor
\* t_user_session, and what it decides is a function of the user held in
\* the session alone: the status of the stored row plays no part.
C19_GuardIsPure ==
  [][ ( /\ res'.handler = "secureFollowingRoutes"
        /\ (res' # res \/ req' # req) )
      => /\ req'.session = req.session
         /\ users' = users
         /\ sessions' = sessions
         /\ (res'.next = 1) <=> ( /\ ~isEmptyUser(req.session.user)
                                  /\ req.session.user[1].status = "active" )
    ]_vars

\* a session made by loginRoute while the user was active has been let
\* through after the stored row became suspended
C19_Witness ==
  /\ res.handler = "secureFollowingRoutes" /\ res.next = 1
  /\ req.session.user # <<>>
  /\ req.session.user[1].id = 1
  /\ hist.successes[1] >= 1
  /\ users[1].status = "suspended"
  /\ users[1].login_count >= 1

(* ---------------------------------------------------------------------- *)
\* C20: a login call that found the password wrong rejects only on the step
\* in which its User.update settles: by then the row with the incremented
\* bad_login_attempts (and status suspended at the threshold) has been
\* written, or the update has been refused and nothing was written.
C20_CounterPersistedBeforeReject ==
  [][ \A p \in Procs :
        ( /\ calls'[p].op = "login"
          /\ calls'[p].compareResult = "false"
          /\ calls[p].state = "pending"
          /\ calls'[p].state = "rejected" )
        => /\ calls[p].pc = "login_update"
           /\ calls'[p].update \in {"ok", "failed"}
           /\ LET u == calls[p].theUser[1]
              IN  /\ (calls'[p].update = "ok") =>
                       /\ users'[u.id] = u
                       /\ u.bad_login_attempts = users[u.id].bad_login_attempts + 1
                       /\ (u.bad_login_attempts >= max_bad_logins
                             => u.status = "suspended")
                  /\ (calls'[p].update = "failed") => users' = users
    ]_vars

\* a wrong-password login has rejected with the threshold reached and the
\* suspended row stored, after an outage kept an earlier attempt from being
\* counted
C20_Witness ==
  /\ calls[1].op = "login" /\ calls[1].pc = "done"
  /\ calls[1].compareResult = "false"
  /\ calls[1].update = "ok"
  /\ Failed(calls[1], InvalidLogin)
  /\ users[1].status = "suspended"
  /\ users[1].bad_login_attempts = max_bad_logins
  /\ hist.outages >= 1
  /\ hist.streak[1] > max_bad_logins

(* ---------------------------------------------------------------------- *)
\* C21: every rejection of login carries one of three errors: the generic
\* Error('Invalid login.'), UserSuspendedError or PasswordExpiredError.  A
\* step on which a request to the database fails (the lookup by username,
\* either update, the role lookup) rejects the call with the generic error,
\* so the text of the database error never reaches the caller.
C21_LoginRejectionsAreCallerSafe ==
  [][ \A p \in Procs :
        (calls'[p] # calls[p] /\ calls'[p].op = "login") =>
          /\ calls'[p].state = "rejected" =>
               calls'[p].error \in {<<InvalidLogin>>, <<UserSuspendedError>>,
                                    <<PasswordExpiredError>>}
          /\ ( /\ ~storeUp
               /\ calls[p].pc \in {"login_one", "login_update", "login_roles"} )
             => /\ Failed(calls'[p], InvalidLogin)
                /\ calls'[p].pc = "done"
    ]_vars

\* a login with the right password has been rejected with the generic error
\* because the update of the user row failed
C21_Witness ==
  /\ calls[1].op = "login" /\ calls[1].pc = "done"
  /\ calls[1].compareResult = "true"
  /\ calls[1].update = "failed"
  /\ Failed(calls[1], InvalidLogin)
  /\ ~storeUp

(* ---------------------------------------------------------------------- *)
\* C22: a step of generateResetPasswordToken or resetPassword on which the
\* database request fails, or on which bcrypt.hash hands over an error,
\* leaves the call rejected with an error other than the database's or the
\* hasher's own, and, in resetPassword, leaves the stored password as it was.
C22_RecoveryFailuresAreCallerSafe ==
  [][ \A p \in Procs :
        ( /\ calls'[p] # calls[p]
          /\ \/ /\ ~storeUp
                /\ calls[p].pc \in {"gen_email", "gen_username", "gen_update",
                                    "reset_one", "reset_hash"}
             \/ /\ calls[p].pc = "reset_hash"
                /\ BcryptHashCallback(calls[p].newPlainTextPassword,
                                      opts.salt_rounds).err # <<>> )
        => /\ calls'[p].state = "rejected"
           /\ calls'[p].error # <<StoreError>>
           /\ calls'[p].error #
                BcryptHashCallback(calls[p].newPlainTextPassword,
                                   opts.salt_rounds).err
           /\ calls[p].op = "resetPassword" =>
                \A id \in UserIds : users'[id].password = users[id].password
    ]_vars

(* ---------------------------------------------------------------------- *)
\* C23: when resetPassword's lookup finds a row whose
\* reset_password_token_expires is earlier than the current time, the call
\* rejects with ExpiredResetTokenError and ends there, and no row changes on
\* that step: the token, its expiry, password, must_reset_password and
\* bad_login_attempts stay as they were.
C23_ExpiredTokenChangesNothing ==
  [][ \A p \in Procs :
        LET user == getByPasswordResetToken(calls[p].token)
        IN  ( /\ calls[p].pc = "reset_one"
              /\ calls'[p] # calls[p]
              /\ storeUp
              /\ user # <<>>
              /\ IsBefore(user[1].reset_password_token_expires, now) )
            => /\ Failed(calls'[p], ExpiredResetTokenError)
               /\ calls'[p].pc = "done"
               /\ users' = users
    ]_vars

\* a resetPassword call has been refused for expiry and the row still holds
\* the token it presented, with its expiry in the past
C23_Witness ==
  \E id \in UserIds :
    /\ calls[1].op = "resetPassword" /\ calls[1].pc = "done"
    /\ Failed(calls[1], ExpiredResetTokenError)
    /\ users[id].reset_password_token = calls[1].token
    /\ IsBefore(users[id].reset_password_token_expires, now)
    /\ users[id].password = BcryptHash("p1")

(* ---------------------------------------------------------------------- *)
\* C24: the step on which a resetPassword call's User.update is carried out,
\* bcrypt.hash having produced a hash, writes the row it read with the new
\* password, must_reset_password false, both token columns NULL and
\* bad_login_attempts 0 all at once and touches no other row; and at no time
\* does a row hold a password written by a redemption together with the
\* token that redemption presented.
C24_RedemptionIsOneWrite ==
  /\ [][ \A p \in Procs :
           ( /\ Leaves(p, "reset_hash")
             /\ storeUp
             /\ BcryptHashCallback(calls[p].newPlainTextPassword,
                                   opts.salt_rounds).err = <<>> )
           => LET user == calls[p].theUser[1]
              IN  /\ users'[user.id] =
                       [user EXCEPT
                          !.password = BcryptHash(calls[p].newPlainTextPassword),
                          !.must_reset_password = FALSE,
                          !.reset_password_token = Null,
                          !.reset_password_token_expires = Null,
                          !.bad_login_attempts = 0]
                  /\ \A id \in UserIds \ {user.id} : users'[id] = users[id]
       ]_vars
  /\ [](\A a \in hist.applied, id \in UserIds :
          ~ ( /\ users[id].reset_password_token = a[1]
              /\ users[id].password = a[2] ))

\* a redemption has been written while a login that had read the row before
\* it was still in flight, and that login has since written its row back:
\* the row holds the redeemed token again, with the password it had then
C24_Witness ==
  \E a \in hist.applied :
    /\ users[1].reset_password_token = a[1]
    /\ users[1].password = BcryptHash("p1")
    /\ \E p \in Procs : calls[p].op = "resetPassword" /\ calls[p].pc = "done"
                        /\ calls[p].update = "ok"
    /\ \E p \in Procs : calls[p].op = "login" /\ calls[p].pc = "done"
                        /\ calls[p].update = "ok"

(* ---------------------------------------------------------------------- *)
\* C25: when two login calls for the same user have both read the same
\* bad_login_attempts n, both found the password wrong and both had their
\* update carried out, both are rejected with the generic error and the
\* stored counter is n + 1: the two failed attempts count as one.
C25_ConcurrentFailuresCountOnce ==
  \A p, q \in Procs :
    ( /\ p # q
      /\ calls[p].op = "login" /\ calls[q].op = "login"
      /\ calls[p].pc = "done" /\ calls[q].pc = "done"
      /\ calls[p].username = calls[q].username
      /\ calls[p].compareResult = "false" /\ calls[q].compareResult = "false"
      /\ calls[p].update = "ok" /\ calls[q].update = "ok"
      /\ calls[p].badBefore = calls[q].badBefore )
    => /\ Failed(calls[p], InvalidLogin)
       /\ Failed(calls[q], InvalidLogin)
       /\ \A id \in UserIds :
            Username(id) = calls[p].username =>
              users[id].bad_login_attempts = calls[p].badBefore + 1

\* two wrong-password logins for alice have both read 0 and both ended, and
\* alice's row is active with a counter of 1
C25_Witness ==
  /\ \A p \in Procs :
       /\ calls[p].op = "login" /\ calls[p].pc = "done"
       /\ calls[p].username = "alice"
       /\ calls[p].compareResult = "false"
       /\ calls[p].update = "ok"
       /\ calls[p].badBefore = 0
       /\ Failed(calls[p], InvalidLogin)
  /\ users[1].status = "active"
  /\ users[1].bad_login_attempts = 1
  /\ hist.started = 2

(* ---------------------------------------------------------------------- *)
\* C26: a row whose status is suspended keeps that status over every step of
\* every call, and no login call for that user resolves while it is stored
\* suspended.
C26_SuspensionIsNeverUndone ==
  [][ \A id \in UserIds :
        users[id].status = "suspended" =>
          /\ users'[id].status = "suspended"
          /\ \A p \in Procs :
               ~ ( /\ calls[p].op = "login"
                   /\ calls[p].username = Username(id)
                   /\ calls[p].state = "pending"
                   /\ calls'[p].state = "resolved" )
    ]_vars

(* ---------------------------------------------------------------------- *)
\* C27: once a resetPassword has written a new password on a user's row, no
\* step stores the password the user started with on that row again, and no
\* login call that reads the row from then on holds a row against which that
\* password compares equal.
C27_OldPasswordStaysDead ==
  [][ \A a \in hist.applied :
        LET id == hist.issuedTo[a[1]]
        IN  /\ users'[id].password # BcryptHash("p1")
            /\ \A p \in Procs :
                 ( /\ calls[p].pc = "login_one"
                   /\ calls'[p].pc = "login_compare"
                   /\ calls[p].username = Username(id) )
                 => ~BcryptCompare("p1", calls'[p].theUser[1].password)
    ]_vars

(* ---------------------------------------------------------------------- *)
\* C28: when a login call has ended rejected, the row of the user it named
\* has the login_count it had when the call began, a last_login only if some
\* login for that user has resolved, and, the password having been right, the
\* bad_login_attempts the call read.
C28_FailedLoginLeavesTelemetry ==
  \A p \in Procs, id \in UserIds :
    ( /\ calls[p].op = "login" /\ calls[p].pc = "done"
      /\ calls[p].state = "rejected"
      /\ calls[p].username = Username(id) )
    => /\ users[id].login_count = calls[p].countBefore
       /\ hist.successes[id] = 0 => users[id].last_login = Null
       /\ calls[p].compareResult = "true" =>
            users[id].bad_login_attempts = calls[p].badBefore

(* ---------------------------------------------------------------------- *)
\* C29: in every reachable state every row has bad_login_attempts at most
\* max_bad_logins, and every row with status active has it below
\* max_bad_logins.
C29_CounterWithinThreshold ==
  \A id \in UserIds :
    /\ users[id].bad_login_attempts <= max_bad_logins
    /\ users[id].status = "active" =>
         users[id].bad_login_attempts < max_bad_logins

\* two callers have each had a wrong-password login written, a row that
\* started active stands suspended with the counter at the threshold, and a
\* third wrong-password login is refused without counting
C29_Witness ==
  /\ users[1].status = "suspended"
  /\ users[1].bad_login_attempts = max_bad_logins
  /\ calls[1].op = "login" /\ calls[1].pc = "done"
  /\ calls[1].compareResult = "false" /\ calls[1].update = "ok"
  /\ calls[2].op = "login" /\ calls[2].pc = "done"
  /\ Failed(calls[2], UserSuspendedError)
  /\ hist.started >= 3

====
